---- MODULE Spec2Model ----
(***************************************************************************)
(* top1::result<Ok, Err> (src/util/result.hpp): a sum type holding either  *)
(* an Ok value or an Err value in a std::variant<Ok, Err>, with the        *)
(* combinators map, map_err, &&, and_then, ||, or_else, get_or and         *)
(* get_or_else.                                                            *)
(*                                                                         *)
(* The state is that of a client that constructs results and calls the     *)
(* member functions on them, one call per step: the receiver before and    *)
(* after the call, the arguments, the value returned and the invocations   *)
(* of caller-supplied callables the call made.                             *)
(***************************************************************************)
EXTENDS Integers, Sequences, FiniteSets

VARIABLES op, args, self, post, ret, log

vars == <<op, args, self, post, ret, log>>

(***************************************************************************)
(* Bounds                                                                  *)
(***************************************************************************)
\* payloads are the values 0 .. MaxVal-1 of their type
MaxVal == 3

Values == 0 .. (MaxVal - 1)

(***************************************************************************)
(* The types Ok and Err are instantiated with, and the implicit            *)
(* conversions between them.  short, int and long convert into one another *)
(* (short -> int is an integral promotion, the others are integral         *)
(* conversions); text (a string class) converts to and from none of them.  *)
(***************************************************************************)
Types == {"short", "int", "long", "text"}

Arithmetic == {"short", "int", "long"}

\* rank of the implicit conversion sequence from -> to:
\* 0 exact match, 1 promotion, 2 conversion, 3 no conversion
ConversionRank(from, to) ==
    IF from = to THEN 0
    ELSE IF from = "short" /\ to = "int" THEN 1
    ELSE IF from \in Arithmetic /\ to \in Arithmetic THEN 2
    ELSE 3

NoConversion == ConversionRank("text", "int")

\* the value of v after the implicit conversion from -> to: a conversion to
\* the 16-bit short wraps modulo 2^16; int and long represent every payload
\* of the model, and a conversion to them keeps the value
Convert(v, from, to) ==
    IF to = "short" /\ from # "short" THEN ((v + 32768) % 65536) - 32768
    ELSE v

\* result<Ok, Err> can be instantiated: with Ok = Err the constructors of
\* lines 17/20 and 18/21 are redeclarations and the class is ill-formed
Instantiable(OkT, ErrT) == OkT \in Types /\ ErrT \in Types /\ OkT # ErrT

ResultTypes == {t \in Types \X Types : Instantiable(t[1], t[2])}

\* overload resolution among result(const Ok&)/result(Ok&&) and
\* result(const Err&)/result(Err&&) for an argument of type argT: the
\* constructor whose parameter needs the better conversion is chosen
Overload(OkT, ErrT, argT) ==
    LET rOk  == ConversionRank(argT, OkT)
        rErr == ConversionRank(argT, ErrT)
    IN  IF rOk = NoConversion /\ rErr = NoConversion THEN "no match"
        ELSE IF rOk < rErr THEN "Ok"
        ELSE IF rErr < rOk THEN "Err"
        ELSE "ambiguous"

\* the initialisation result<OkT, ErrT>(x) compiles for x of type argT
Constructible(OkT, ErrT, argT) == Overload(OkT, ErrT, argT) \in {"Ok", "Err"}

\* std::variant<Ok, Err> data: index 0 holds an Ok, index 1 holds an Err
variant(i, v) == [index |-> i, val |-> v]

\* result<OkT, ErrT> constructed from the value v of type argT
result(OkT, ErrT, argT, v) ==
    [OkT  |-> OkT,
     ErrT |-> ErrT,
     data |-> IF Overload(OkT, ErrT, argT) = "Ok"
              THEN variant(0, Convert(v, argT, OkT))
              ELSE variant(1, Convert(v, argT, ErrT))]

\* every value a result<OkT, ErrT> object can have
Results ==
    {[OkT |-> t[1], ErrT |-> t[2], data |-> variant(i, v)] :
        t \in ResultTypes, i \in {0, 1}, v \in Values}

(***************************************************************************)
(* Inspection                                                              *)
(***************************************************************************)
is_ok(r) == r.data.index = 0

\* is_err written as a copy of is_ok
is_err_holds_Ok(r) == r.data.index = 0

is_err(r) == r.data.index = 1

\* what std::get<T>(data) throws when data holds the other alternative
bad_variant_access == -1

\* std::get<Ok>(data) and std::get<Err>(data)
get_Ok(r) == IF r.data.index = 0 THEN r.data.val ELSE bad_variant_access

get_Err(r) == IF r.data.index = 1 THEN r.data.val ELSE bad_variant_access

\* std::optional<T>
nullopt == [has |-> FALSE, val |-> 0]

optional(v) == [has |-> TRUE, val |-> v]

\* a const member function leaves the receiver as it was: every member
\* function yields the receiver after the call, the value returned and the
\* invocations of the caller's callables it made
Call(r, value, invoked) == [self |-> r, ret |-> value, log |-> invoked]

ok(r) ==
    IF is_ok(r) THEN Call(r, optional(get_Ok(r)), <<>>)
    ELSE Call(r, nullopt, <<>>)

\* err() testing is_ok() instead of is_err()
err_tests_is_ok(r) ==
    IF is_ok(r) THEN Call(r, optional(r.data.val), <<>>)
    ELSE Call(r, nullopt, <<>>)

err(r) ==
    IF is_err(r) THEN Call(r, optional(get_Err(r)), <<>>)
    ELSE Call(r, nullopt, <<>>)

(***************************************************************************)
(* Caller-supplied callables                                               *)
(***************************************************************************)
\* bodies of the unary callables handed to map, map_err and get_or_else
Bodies == {"identity", "succ", "twice", "zero"}

Apply(body, x) ==
    CASE body = "identity" -> x
      [] body = "succ"     -> (x + 1) % MaxVal
      [] body = "twice"    -> (2 * x) % MaxVal
      [] body = "zero"     -> 0

\* a unary callable: the bodies it applies in turn, and its return type
Callable(bodies, retT) == [bodies |-> bodies, ret |-> retT]

Callables == {Callable(<<b>>, t) : b \in Bodies, t \in Types}

\* x -> g(f(x))
Compose(f, g) == Callable(f.bodies \o g.bodies, g.ret)

RECURSIVE ApplyAll(_, _)
ApplyAll(bodies, x) ==
    IF bodies = <<>> THEN x
    ELSE ApplyAll(Tail(bodies), Apply(Head(bodies), x))

\* std::invoke(op, x)
invoke(f, x) == ApplyAll(f.bodies, x)

\* the callables handed to and_then and or_else return a result<OkT, ErrT>
ResultCallables ==
    {[kind |-> k, OkT |-> t[1], ErrT |-> t[2]] :
        k \in {"err_same", "positive"}, t \in ResultTypes}

\* std::invoke(f, args...) for such a callable: the callable builds its
\* result from a value of exactly the payload type
invoke_r(f, a) ==
    LET Ok(v)  == result(f.OkT, f.ErrT, f.OkT, v)
        Err(v) == result(f.OkT, f.ErrT, f.ErrT, v)
    IN  CASE f.kind = "err_same" -> Err(a)
          [] f.kind = "positive" -> IF a > 0 THEN Ok((a + 1) % MaxVal) ELSE Err(0)

\* one invocation of a caller-supplied callable, as a test's counter sees it
Invocation(f, x) == [f |-> f, x |-> x]

(***************************************************************************)
(* Transformation                                                          *)
(***************************************************************************)
\* map<F> compiles: `return *this` (line 61) needs result<Ok, Err> to be the
\* return type result<U, Err>, U the return type of op
map_compiles(r, f) == f.ret = r.OkT /\ Instantiable(f.ret, r.ErrT)

\* map without the is_ok() test: op is invoked on whatever data holds
map_unguarded(r, f) ==
    Call(r, result(f.ret, r.ErrT, f.ret, invoke(f, r.data.val)),
         <<Invocation(f, r.data.val)>>)

map(r, f) ==
    IF is_ok(r)
    THEN Call(r, result(f.ret, r.ErrT, f.ret, invoke(f, get_Ok(r))),
              <<Invocation(f, get_Ok(r))>>)
    ELSE Call(r, r, <<>>)

map_err_compiles(r, f) == f.ret = r.ErrT /\ Instantiable(r.OkT, f.ret)

\* map_err testing is_ok() instead of is_err()
map_err_tests_is_ok(r, f) ==
    IF is_ok(r)
    THEN Call(r, result(r.OkT, f.ret, f.ret, invoke(f, r.data.val)),
              <<Invocation(f, r.data.val)>>)
    ELSE Call(r, r, <<>>)

map_err(r, f) ==
    IF is_err(r)
    THEN Call(r, result(r.OkT, f.ret, f.ret, invoke(f, get_Err(r))),
              <<Invocation(f, get_Err(r))>>)
    ELSE Call(r, r, <<>>)

(***************************************************************************)
(* Composition                                                             *)
(***************************************************************************)
\* operator&&(const result<Ok2, Err>& r): the operands share Err
operator_and_compiles(r, rhs) ==
    rhs.ErrT = r.ErrT /\ Constructible(rhs.OkT, rhs.ErrT, r.ErrT)

operator_and(r, rhs) ==
    IF is_ok(r) THEN Call(r, rhs, <<>>)
    ELSE Call(r, result(rhs.OkT, rhs.ErrT, r.ErrT, get_Err(r)), <<>>)

\* and_then returns decltype(std::invoke(f, args...)); `return
\* std::get<Err>(data)` (line 97) converts the Err payload into that type
and_then_compiles(r, f) == Constructible(f.OkT, f.ErrT, r.ErrT)

\* and_then handing the receiver's Ok payload to f instead of args
and_then_passes_payload(r, f, a) ==
    IF is_ok(r) THEN Call(r, invoke_r(f, get_Ok(r)), <<Invocation(f, get_Ok(r))>>)
    ELSE Call(r, result(f.OkT, f.ErrT, r.ErrT, get_Err(r)), <<>>)

and_then(r, f, a) ==
    IF is_ok(r) THEN Call(r, invoke_r(f, a), <<Invocation(f, a)>>)
    ELSE Call(r, result(f.OkT, f.ErrT, r.ErrT, get_Err(r)), <<>>)

\* operator||(const result<Ok2, Err>& r); `return std::get<Ok>(data)`
\* (line 109) converts the Ok payload into result<Ok2, Err>
operator_or_compiles(r, rhs) ==
    rhs.ErrT = r.ErrT /\ Constructible(rhs.OkT, rhs.ErrT, r.OkT)

operator_or(r, rhs) ==
    IF is_err(r) THEN Call(r, rhs, <<>>)
    ELSE Call(r, result(rhs.OkT, rhs.ErrT, r.OkT, get_Ok(r)), <<>>)

or_else_compiles(r, f) == Constructible(f.OkT, f.ErrT, r.OkT)

or_else(r, f, a) ==
    IF is_err(r) THEN Call(r, invoke_r(f, a), <<Invocation(f, a)>>)
    ELSE Call(r, result(f.OkT, f.ErrT, r.OkT, get_Ok(r)), <<>>)

(***************************************************************************)
(* Extraction with fallback                                                *)
(***************************************************************************)
\* a value returned by a call that compiled, and the outcome of a call the
\* compiler rejects
Returned(v) == [compiled |-> TRUE, val |-> v]

IllFormed == [compiled |-> FALSE, val |-> 0]

\* Ok get_or(const Ok& def) const
get_or(r, def) ==
    IF is_ok(r) THEN Call(r, Returned(get_Ok(r)), <<>>)
    ELSE Call(r, Returned(def), <<>>)

\* a return type Ok&& binds to the returned expression: an rvalue reference
\* binds neither to an lvalue nor to a const object
BindsRvalueRef(category, isConst) == category # "lvalue" /\ ~isConst

\* Ok&& get_or(Ok&& def) const: in a const member std::get<Ok>(data) is an
\* lvalue of type const Ok (line 139); std::move(def) is an xvalue of type Ok
\* (line 141).  The body is instantiated whole, so one return statement that
\* does not bind makes every call of this overload ill-formed.
get_or_rvalue_compiles ==
    BindsRvalueRef("lvalue", TRUE) /\ BindsRvalueRef("xvalue", FALSE)

get_or_rvalue(r, def) ==
    IF ~get_or_rvalue_compiles THEN Call(r, IllFormed, <<>>)
    ELSE IF is_ok(r) THEN Call(r, Returned(get_Ok(r)), <<>>)
    ELSE Call(r, Returned(def), <<>>)

\* std::is_invocable_r_v<Ok, F, Args...>
get_or_else_compiles(r, f) == ConversionRank(f.ret, r.OkT) # NoConversion

get_or_else(r, f, a) ==
    IF is_ok(r) THEN Call(r, Returned(get_Ok(r)), <<>>)
    ELSE Call(r, Returned(Convert(invoke(f, a), f.ret, r.OkT)), <<Invocation(f, a)>>)

(***************************************************************************)
(* The client                                                              *)
(***************************************************************************)
NoObject == [none |-> TRUE]

ReturnsResult ==
    {"result", "map", "map_err", "operator_and", "and_then", "operator_or", "or_else"}

\* the result the client calls next: the one the last call returned, or the
\* receiver of the last call when that returned no result
Held ==
    IF op \in ReturnsResult THEN {ret}
    ELSE IF op = "none" THEN {}
    ELSE {post}

Init ==
    /\ op = "none"
    /\ args = NoObject
    /\ self = NoObject
    /\ post = NoObject
    /\ ret = NoObject
    /\ log = <<>>

\* result<OkT, ErrT> r = x, where the client means x as the Ok or as the Err
\* payload: x has a type argT that converts implicitly to the payload type
\* meant and is not the other payload type itself.  The client starts with it.
Construct ==
    /\ op = "none"
    /\ \E t \in ResultTypes, intent \in {"Ok", "Err"}, argT \in Types, v \in Values :
           /\ ConversionRank(argT, IF intent = "Ok" THEN t[1] ELSE t[2]) # NoConversion
           /\ argT # (IF intent = "Ok" THEN t[2] ELSE t[1])
           /\ Constructible(t[1], t[2], argT)
           /\ op' = "result"
           /\ args' = [intent |-> intent, argT |-> argT, v |-> v]
           /\ self' = NoObject
           /\ post' = NoObject
           /\ ret' = result(t[1], t[2], argT, v)
           /\ log' = <<>>

\* the call `name` on the receiver r with the arguments in, whose outcome is out
Finish(name, r, in, out) ==
    /\ op' = name
    /\ args' = in
    /\ self' = r
    /\ post' = out.self
    /\ ret' = out.ret
    /\ log' = out.log

CallOk == \E r \in Held : Finish("ok", r, NoObject, ok(r))

CallErr == \E r \in Held : Finish("err", r, NoObject, err(r))

CallMap ==
    \E r \in Held, f \in Callables :
        /\ map_compiles(r, f)
        /\ Finish("map", r, [f |-> f], map(r, f))

CallMapErr ==
    \E r \in Held, f \in Callables :
        /\ map_err_compiles(r, f)
        /\ Finish("map_err", r, [f |-> f], map_err(r, f))

CallAnd ==
    \E r \in Held, rhs \in Results :
        /\ operator_and_compiles(r, rhs)
        /\ Finish("operator_and", r, [rhs |-> rhs], operator_and(r, rhs))

CallAndThen ==
    \E r \in Held, f \in ResultCallables, a \in Values :
        /\ and_then_compiles(r, f)
        /\ Finish("and_then", r, [f |-> f, a |-> a], and_then(r, f, a))

CallOr ==
    \E r \in Held, rhs \in Results :
        /\ operator_or_compiles(r, rhs)
        /\ Finish("operator_or", r, [rhs |-> rhs], operator_or(r, rhs))

CallOrElse ==
    \E r \in Held, f \in ResultCallables, a \in Values :
        /\ or_else_compiles(r, f)
        /\ Finish("or_else", r, [f |-> f, a |-> a], or_else(r, f, a))

CallGetOr ==
    \E r \in Held, def \in Values :
        Finish("get_or", r, [def |-> def], get_or(r, def))

CallGetOrRvalue ==
    \E r \in Held, def \in Values :
        Finish("get_or_rvalue", r, [def |-> def], get_or_rvalue(r, def))

CallGetOrElse ==
    \E r \in Held, f \in Callables, a \in Values :
        /\ get_or_else_compiles(r, f)
        /\ Finish("get_or_else", r, [f |-> f, a |-> a], get_or_else(r, f, a))

Next ==
    \/ Construct
    \/ CallOk
    \/ CallErr
    \/ CallMap
    \/ CallMapErr
    \/ CallAnd
    \/ CallAndThen
    \/ CallOr
    \/ CallOrElse
    \/ CallGetOr
    \/ CallGetOrRvalue
    \/ CallGetOrElse

Spec == Init /\ [][Next]_vars

(***************************************************************************)
(* Properties                                                              *)
(***************************************************************************)
\* the results in the state: the receiver before and after the last call,
\* and the result the last call returned
Objects ==
    (IF op \in {"none", "result"} THEN {} ELSE {self, post})
        \cup (IF op \in ReturnsResult THEN {ret} ELSE {})

\* C1: every result, whether constructed or returned by a chain of map,
\* map_err, and_then, or_else, && and ||, is exactly one of is_ok and is_err.
ExactlyOneVariant == \A r \in Objects : is_ok(r) # is_err(r)

ExactlyOneVariantWitness ==
    op = "operator_or" /\ is_err(self) /\ is_ok(ret) /\ ~is_err(ret)

\* C2: ok() is engaged exactly when is_ok() and then holds the Ok payload,
\* err() is engaged exactly when is_err() and then holds the Err payload;
\* exactly one of the two is engaged, and the call leaves the receiver as it was.
OptionalAccessors ==
    /\ op = "ok" =>
        /\ ret.has = is_ok(self)
        /\ ret.has => ret.val = get_Ok(self)
        /\ post = self
    /\ op = "err" =>
        /\ ret.has = is_err(self)
        /\ ret.has => ret.val = get_Err(self)
        /\ post = self
    /\ \A r \in Objects : ok(r).ret.has # err(r).ret.has

OptionalAccessorsWitness ==
    op = "err" /\ is_err(self) /\ ret = optional(1) /\ ~ok(self).ret.has

\* C3: constructing from a payload meant as Ok yields is_ok() holding that
\* payload, constructing from a payload meant as Err yields is_err() holding
\* it, whatever the types, convertible into one another or not.
ConstructionContract ==
    op = "result" =>
        /\ args.intent = "Ok" => is_ok(ret) /\ get_Ok(ret) = args.v
        /\ args.intent = "Err" => is_err(ret) /\ get_Err(ret) = args.v

\* C4: map(f) on Ok(x) is Ok(f(x)) with f invoked once, on x; map(f) on
\* Err(e) is Err(e) with f not invoked; the receiver is unchanged.
MapContract ==
    op = "map" =>
        /\ is_ok(self) =>
            /\ is_ok(ret)
            /\ get_Ok(ret) = invoke(args.f, get_Ok(self))
            /\ log = <<Invocation(args.f, get_Ok(self))>>
        /\ is_err(self) =>
            /\ is_err(ret)
            /\ get_Err(ret) = get_Err(self)
            /\ log = <<>>
        /\ ret.ErrT = self.ErrT
        /\ post = self

MapContractWitness ==
    op = "map" /\ is_ok(self) /\ is_ok(ret) /\ get_Ok(ret) # get_Ok(self) /\ Len(log) = 1

\* C5: map_err(identity) returns the receiver's value; map_err(f) followed
\* by map_err(g) equals map_err(x -> g(f(x))); on an Ok receiver both sides
\* are the receiver's value and no callable is invoked.
MapErrFunctorLaws ==
    op = "map_err" =>
        /\ args.f.bodies = <<"identity">> => ret = self
        /\ \A g \in Callables :
            map_err_compiles(ret, g) =>
                /\ map_err(ret, g).ret = map_err(self, Compose(args.f, g)).ret
                /\ is_ok(self) =>
                    /\ map_err(ret, g).ret = self
                    /\ map_err(ret, g).log = <<>>
                    /\ map_err(self, Compose(args.f, g)).log = <<>>
        /\ is_ok(self) => ret = self /\ log = <<>>

MapErrFunctorLawsWitness ==
    /\ op = "map_err"
    /\ is_err(self)
    /\ args.f.bodies = <<"succ">>
    /\ get_Err(ret) # get_Err(self)
    /\ \E g \in Callables :
        /\ map_err_compiles(ret, g)
        /\ map_err(ret, g).ret # ret

\* C6 (as stated): and_then on Ok(x) returns f(x), f applied to the
\* receiver's Ok payload.
AndThenAppliesToPayload ==
    (op = "and_then" /\ is_ok(self)) => ret = invoke_r(args.f, get_Ok(self))

\* C6 (amended): and_then(f, args...) on an Ok receiver invokes f once, with
\* the arguments the caller supplied, and returns f's result as it is; the
\* receiver's Ok payload is not passed to f.
AndThenAppliesToArgs ==
    (op = "and_then" /\ is_ok(self)) =>
        /\ ret = invoke_r(args.f, args.a)
        /\ log = <<Invocation(args.f, args.a)>>
        /\ post = self

AndThenAppliesToArgsWitness ==
    /\ op = "and_then"
    /\ is_ok(self)
    /\ args.a # get_Ok(self)
    /\ ret # invoke_r(args.f, get_Ok(self))

\* C7: and_then on Err(e) returns Err(e) with the same payload and invokes
\* f zero times, so in a chain of and_then steps no step after the first Err
\* invokes its callable and the chain ends in that Err.
AndThenShortCircuit ==
    (op = "and_then" /\ is_err(self)) =>
        /\ log = <<>>
        /\ is_err(ret)
        /\ get_Err(ret) = get_Err(self)

\* C8: or_else(f, args...) on an Err receiver invokes f once with args and
\* returns f's result; on Ok(x) it returns Ok(x) and does not invoke f.
OrElseContract ==
    op = "or_else" =>
        /\ is_err(self) =>
            /\ ret = invoke_r(args.f, args.a)
            /\ log = <<Invocation(args.f, args.a)>>
        /\ is_ok(self) =>
            /\ log = <<>>
            /\ is_ok(ret)
            /\ get_Ok(ret) = get_Ok(self)

\* C9: a && b is b when a is Ok and Err(a's Err payload) when a is Err;
\* a || b is b when a is Err and Ok(a's Ok payload) when a is Ok; neither
\* operand is modified.
EagerOperators ==
    /\ op = "operator_and" =>
        /\ is_ok(self) => ret = args.rhs
        /\ is_err(self) => is_err(ret) /\ get_Err(ret) = get_Err(self)
        /\ post = self
    /\ op = "operator_or" =>
        /\ is_err(self) => ret = args.rhs
        /\ is_ok(self) => is_ok(ret) /\ get_Ok(ret) = get_Ok(self)
        /\ post = self

\* C10: get_or(def), with def an lvalue or an rvalue, returns x on Ok(x) and
\* def on Err(e); get_or_else(f, args...) returns x on Ok(x) without invoking
\* f and on Err(e) invokes f once with args and returns what f returns; every
\* such call returns.
FallbackExtraction ==
    /\ op \in {"get_or", "get_or_rvalue"} =>
        /\ ret.compiled
        /\ ret.val = IF is_ok(self) THEN get_Ok(self) ELSE args.def
        /\ log = <<>>
    /\ op = "get_or_else" =>
        /\ ret.compiled
        /\ is_ok(self) => ret.val = get_Ok(self) /\ log = <<>>
        /\ is_err(self) =>
            /\ ret.val = invoke(args.f, args.a)
            /\ log = <<Invocation(args.f, args.a)>>

====
